---- MODULE Spec2Model ----
(***************************************************************************)
(* Minimal perfect hash table of dgryski/mph-rs (src/src/lib.rs):          *)
(* Table::new builds the two arrays values and seeds, Table::query reads   *)
(* them.  A u64 is a tuple of eight bytes, least significant first, so     *)
(* that the 64-bit wrap-around of the source is computed exactly.          *)
(***************************************************************************)
EXTENDS Integers, Sequences, FiniteSets, TLC

(***************************************************************************)
(* Bounds of the model.                                                    *)
(***************************************************************************)
\* longest key sequence drawn from Universe
MaxKeys == 3
\* seeds the search may try before the model stops following it
MaxSeed == 5

(***************************************************************************)
(* 64-bit unsigned arithmetic on byte tuples.                              *)
(***************************************************************************)
RECURSIVE XorBits(_, _, _)
\* a ^ b on the low n bits
XorBits(a, b, n) ==
  IF n = 0 THEN 0
  ELSE ((a + b) % 2) + 2 * XorBits(a \div 2, b \div 2, n - 1)

RECURSIVE AndBits(_, _, _)
\* a & b on the low n bits
AndBits(a, b, n) ==
  IF n = 0 THEN 0
  ELSE ((a % 2) * (b % 2)) + 2 * AndBits(a \div 2, b \div 2, n - 1)

\* byte i (0 = least significant) of x, zero outside the 64 bits
Limb(x, i) == IF i >= 0 /\ i <= 7 THEN x[i + 1] ELSE 0

\* n as u64, for 0 <= n < 2^31
ToU64(n) ==
  <<n % 256, (n \div 256) % 256, (n \div 65536) % 256, (n \div 16777216) % 256,
    0, 0, 0, 0>>

\* x ^ y
Xor64(x, y) ==
  LET f(i) == XorBits(x[i], y[i], 8)
  IN  <<f(1), f(2), f(3), f(4), f(5), f(6), f(7), f(8)>>

\* x >> k
Shr64(x, k) ==
  LET q == k \div 8
      r == k % 8
      f(i) == (Limb(x, i - 1 + q) \div (2 ^ r))
              + (Limb(x, i + q) % (2 ^ r)) * (2 ^ (8 - r))
  IN  <<f(1), f(2), f(3), f(4), f(5), f(6), f(7), f(8)>>

\* x << k, the bits shifted past bit 63 dropped
Shl64(x, k) ==
  LET q == k \div 8
      r == k % 8
      f(i) == ((Limb(x, i - 1 - q) * (2 ^ r)) % 256)
              + (Limb(x, i - 2 - q) \div (2 ^ (8 - r)))
  IN  <<f(1), f(2), f(3), f(4), f(5), f(6), f(7), f(8)>>

RECURSIVE AddFrom(_, _, _, _, _)
\* bytes i..8 of x + y appended to acc, c the carry into byte i
AddFrom(x, y, i, c, acc) ==
  IF i > 8 THEN [val |-> acc, overflow |-> c = 1]
  ELSE AddFrom(x, y, i + 1, (x[i] + y[i] + c) \div 256,
               Append(acc, (x[i] + y[i] + c) % 256))

\* x + y: the wrapped sum and whether it left the 64 bits
Add64(x, y) == AddFrom(x, y, 1, 0, << >>)

RECURSIVE ColumnSum(_, _, _, _)
\* sum of x[i] * c[k - i] for i = lo..k (0-based bytes)
ColumnSum(x, c, k, lo) ==
  IF lo > k THEN 0
  ELSE Limb(x, lo) * Limb(c, k - lo) + ColumnSum(x, c, k, lo + 1)

RECURSIVE MulFrom(_, _, _, _, _)
\* bytes k..7 of the schoolbook product appended to acc, carry from the columns below
MulFrom(x, c, k, carry, acc) ==
  IF k > 7 THEN acc
  ELSE MulFrom(x, c, k + 1, (ColumnSum(x, c, k, 0) + carry) \div 256,
               Append(acc, (ColumnSum(x, c, k, 0) + carry) % 256))

\* x.wrapping_mul(c)
WrappingMul64(x, c) == MulFrom(x, c, 0, 0, << >>)

\* 2_685_821_657_736_338_717 = 0x2545F4914F6CDD1D
MixConstant == <<29, 221, 108, 79, 145, 244, 69, 37>>

xorshift_mult64(x) ==
  LET a == Xor64(x, Shr64(x, 12))
      b == Xor64(a, Shl64(a, 25))
      c == Xor64(b, Shr64(b, 27))
  IN  WrappingMul64(c, MixConstant)


RECURSIVE ModHorner(_, _, _, _)
\* the bytes i..1 of x folded into the remainder r modulo m, most significant first
ModHorner(x, i, m, r) ==
  IF i = 0 THEN r ELSE ModHorner(x, i - 1, m, ((r * 256) + x[i]) % m)

\* x % m as a number, for 1 <= m < 2^23
Mod64(x, m) == ModHorner(x, 8, m, 0)

\* x & mask as a number, for 0 <= mask < 2^31
And64(x, mask) ==
  LET m == ToU64(mask)
  IN  AndBits(x[1], m[1], 8) + 256 * AndBits(x[2], m[2], 8)
      + 65536 * AndBits(x[3], m[3], 8) + 16777216 * AndBits(x[4], m[4], 8)

(***************************************************************************)
(* Keys.  A key is a string; calculate_hash is the standard library's      *)
(* DefaultHasher (SipHash-1-3 with a zero key, over the bytes of the       *)
(* string followed by 0xFF), tabulated here for the keys of the model.     *)
(* "foo" .. "zeek" are the keys of tests::it_works.  kmax, kcolA and kcolB *)
(* stand for strings whose hashes are the values listed: the largest u64,  *)
(* and one value shared by two distinct strings.  With these keys every    *)
(* seed search that can end at all ends within three seeds, so MaxSeed     *)
(* cuts off only searches that no seed can end (CapOnlyOnSameHash); other  *)
(* keys need far more (the two-key table of "foo" and "bar" takes 3241).   *)
(***************************************************************************)
TestKeys == <<"foo", "bar", "baz", "qux", "zot", "frob", "zork", "zeek">>

Universe == {"baz", "qux", "frob", "kmax", "kcolA", "kcolB"}

AllKeys == Universe \cup {TestKeys[i] : i \in 1..Len(TestKeys)}

calculate_hash(k) ==
  CASE k = "foo"   -> <<183, 115, 202, 195, 68, 140, 139, 62>>   \* 0x3E8B8C44C3CA73B7
    [] k = "bar"   -> <<87, 19, 115, 94, 116, 85, 5, 51>>        \* 0x330555745E731357
    [] k = "baz"   -> <<45, 244, 170, 103, 18, 148, 170, 225>>   \* 0xE1AA941267AAF42D
    [] k = "qux"   -> <<86, 111, 36, 154, 54, 247, 7, 12>>       \* 0x0C07F7369A246F56
    [] k = "zot"   -> <<211, 247, 91, 89, 115, 61, 5, 66>>       \* 0x42053D73595BF7D3
    [] k = "frob"  -> <<51, 195, 243, 2, 223, 35, 140, 126>>     \* 0x7E8C23DF02F3C333
    [] k = "zork"  -> <<81, 39, 212, 59, 122, 33, 228, 10>>      \* 0x0AE4217A3BD42751
    [] k = "zeek"  -> <<91, 127, 240, 134, 243, 137, 76, 209>>   \* 0xD14C89F386F07F5B
    [] k = "kmax"  -> <<255, 255, 255, 255, 255, 255, 255, 255>> \* 0xFFFFFFFFFFFFFFFF
    [] k = "kcolA" -> <<170, 170, 170, 170, 170, 170, 170, 170>> \* 0xAAAAAAAAAAAAAAAA
    [] k = "kcolB" -> <<170, 170, 170, 170, 170, 170, 170, 170>> \* 0xAAAAAAAAAAAAAAAA

\* the key sequences Table::new is called with
KeySeqs == UNION {[1..n -> Universe] : n \in 0..MaxKeys} \cup {TestKeys}

NoDuplicates(ks) == \A i, j \in 1..Len(ks) : ks[i] = ks[j] => i = j

(***************************************************************************)
(* Table::new, lines 25-44: sizing, buckets, sort, zero-filled arrays.     *)
(***************************************************************************)
RECURSIVE PowerFrom(_, _)
PowerFrom(p, n) == IF p >= n THEN p ELSE PowerFrom(2 * p, n)

\* the bit trick without the special case of 0
NextPowerOfTwoOfZeroIsZero(n) == IF n = 0 THEN 0 ELSE PowerFrom(1, n)

\* usize::next_power_of_two: the smallest power of two >= n, 1 for n = 0
NextPowerOfTwo(n) == PowerFrom(1, n)

\* Entry { idx: idx + 1, hash } for every key, in key order
EntriesOf(ks) == [i \in 1..Len(ks) |-> [idx |-> i, hash |-> calculate_hash(ks[i])]]

\* h before the sort: h[b + 1] holds the entries with hash % size = b
Buckets(ks, sz) ==
  [b \in 1..sz |->
     SelectSeq(EntriesOf(ks), LAMBDA e : Mod64(e.hash, sz) = b - 1)]

Longest(hs) ==
  IF hs = << >> THEN 0
  ELSE CHOOSE l \in {Len(hs[i]) : i \in 1..Len(hs)} :
         \A j \in 1..Len(hs) : Len(hs[j]) <= l

RECURSIVE SortFrom(_, _)
SortFrom(hs, l) ==
  IF l < 0 THEN << >>
  ELSE SelectSeq(hs, LAMBDA b : Len(b) = l) \o SortFrom(hs, l - 1)

\* h.sort_by(|a, b| b.len().cmp(&a.len())): stable, longest bucket first
SortByLenDesc(hs) == SortFrom(hs, Longest(hs))

ZeroFilled(sz) == [i \in 0..(sz - 1) |-> 0]

(***************************************************************************)
(* Table::new, lines 48-88: the seeded phase.                              *)
(***************************************************************************)
CutOverOnEmpty(bucket) == Len(bucket) < 1

\* line 50: the bucket that ends the seeded phase
CutOver(bucket) == Len(bucket) <= 1

ClaimableIgnoringTentative(ents, vals, i) == vals[i] = 0

\* line 63: slot i is neither claimed in this attempt nor by an earlier bucket
Claimable(ents, vals, i) == i \notin DOMAIN ents /\ vals[i] = 0

\* entries.insert(i, idx)
Insert(ents, i, v) == (i :> v) @@ ents

NoEntries == [i \in {} |-> 0]

CommitEntryByPosition(vals, k, v, pos, subkeys) ==
  [vals EXCEPT ![k] = subkeys[pos].idx]

\* line 80, for the entry (k, v) that entries.iter() yields at position pos
CommitEntry(vals, k, v, pos, subkeys) == [vals EXCEPT ![k] = v]

\* lines 84-87: seeds[hash % size] = seed for every member
AssignSeed(sds, subkeys, sd, sz) ==
  [p \in DOMAIN sds |->
     IF \E j \in 1..Len(subkeys) : Mod64(subkeys[j].hash, sz) = p
     THEN sd ELSE sds[p]]

(***************************************************************************)
(* Table::new, lines 90-114: free list and displacement phase.             *)
(***************************************************************************)
FinalizeNoDecrement(vals) == vals

\* lines 96-97: claimed slots lose the +1 of line 36
Finalize(vals) == [i \in DOMAIN vals |-> IF vals[i] = 0 THEN 0 ELSE vals[i] - 1]

Ascending(sz) == [i \in 1..sz |-> i - 1]

FreeListAfterDecrement(vals) ==
  SelectSeq(Ascending(Cardinality(DOMAIN vals)), LAMBDA i : Finalize(vals)[i] = 0)

\* lines 91-94: the slots still 0, in ascending order
FreeList(vals) ==
  SelectSeq(Ascending(Cardinality(DOMAIN vals)), LAMBDA i : vals[i] = 0)

ClaimFreeBiased(vals, dst, k) == [vals EXCEPT ![dst] = k.idx]

\* line 110
ClaimFree(vals, dst, k) == [vals EXCEPT ![dst] = k.idx - 1]

EncodeOffsetNoBias(dst) == -dst

\* line 113
EncodeOffset(dst) == -(dst + 1)

(***************************************************************************)
(* Table::query, lines 120-131.  An index outside an array and, in a build *)
(* with overflow checks, a sum that leaves the 64 bits are panics.         *)
(***************************************************************************)
Panic(reason) == [ok |-> FALSE, val |-> 0, why |-> reason]

Ok(v) == [ok |-> TRUE, val |-> v, why |-> ""]

\* the slot of values that query reads for key k
QuerySlot(vals, sds, k, checks) ==
  LET sz   == Cardinality(DOMAIN vals)
      hash == calculate_hash(k)
  IN  IF sz = 0
      THEN Panic(IF checks THEN "overflow" ELSE "index")
      ELSE
        LET i == And64(hash, sz - 1)
        IN  IF i \notin DOMAIN sds THEN Panic("index")
            ELSE IF sds[i] < 0
            THEN Ok(-sds[i] - 1)
            ELSE
              LET sum == Add64(ToU64(sds[i]), hash)
              IN  IF sum.overflow /\ checks THEN Panic("overflow")
                  ELSE Ok(And64(xorshift_mult64(sum.val), sz - 1))

Query(vals, sds, k, checks) ==
  LET s == QuerySlot(vals, sds, k, checks)
  IN  IF ~s.ok THEN s
      ELSE IF s.val \notin DOMAIN vals THEN Panic("index")
      ELSE Ok(vals[s.val])


(***************************************************************************)
(* State.  keys and overflow_checks are the inputs: the key sequence and   *)
(* whether the build panics on integer overflow (debug and test profiles)  *)
(* or wraps (release).  Table::new runs twice on the same keys; first is   *)
(* the table of the first run.  owner, handled and order are history       *)
(* variables: the entry indices ever written to each slot of values, the   *)
(* phases that wrote each slot of seeds, and the order in which            *)
(* entries.iter() yielded the tentative claims.                            *)
(***************************************************************************)
VARIABLES keys, overflow_checks, run, first, pc, why, size, h, values, seeds,
          idx, hidx, seed, entries, kpos, pending, free, qkey, qres,
          owner, handled, order

vars == <<keys, overflow_checks, run, first, pc, why, size, h, values, seeds,
          idx, hidx, seed, entries, kpos, pending, free, qkey, qres,
          owner, handled, order>>

NoKey == "-"

NoTable == [values |-> << >>, seeds |-> << >>, order |-> << >>]

Init ==
  /\ keys \in KeySeqs
  /\ overflow_checks \in BOOLEAN
  /\ run = 1
  /\ first = NoTable
  /\ pc = "start"
  /\ why = ""
  /\ size = 0
  /\ h = << >>
  /\ values = << >>
  /\ seeds = << >>
  /\ idx = 0
  /\ hidx = 0
  /\ seed = 0
  /\ entries = NoEntries
  /\ kpos = 0
  /\ pending = {}
  /\ free = << >>
  /\ qkey = NoKey
  /\ qres = Ok(0)
  /\ owner = << >>
  /\ handled = << >>
  /\ order = << >>

\* lines 25-46
Start ==
  /\ pc = "start"
  /\ LET sz == NextPowerOfTwo(Len(keys))
     IN  IF sz = 0 /\ Len(keys) > 0
         THEN \* line 33: hash % 0
              /\ pc' = "panic"
              /\ why' = "modulo by zero"
              /\ UNCHANGED <<size, h, values, seeds, owner, handled>>
         ELSE /\ size' = sz
              /\ h' = SortByLenDesc(Buckets(keys, sz))
              /\ values' = ZeroFilled(sz)
              /\ seeds' = ZeroFilled(sz)
              /\ owner' = [i \in 0..(sz - 1) |-> {}]
              /\ handled' = [i \in 0..(sz - 1) |-> << >>]
              /\ pc' = "for"
              /\ why' = why
  /\ idx' = 0
  /\ hidx' = 0
  /\ UNCHANGED <<keys, overflow_checks, run, first, seed, entries, kpos,
                 pending, free, qkey, qres, order>>

\* lines 48-57: the head of the loop over the sorted buckets
ForBucket ==
  /\ pc = "for"
  /\ IF idx >= Len(h)
     THEN /\ pc' = "free"
          /\ UNCHANGED <<hidx, seed, entries>>
     ELSE /\ hidx' = idx
          /\ IF CutOver(h[idx + 1])
             THEN /\ pc' = "free"
                  /\ UNCHANGED <<seed, entries>>
             ELSE /\ seed' = 0
                  /\ entries' = NoEntries
                  /\ pc' = "newseed"
  /\ UNCHANGED <<keys, overflow_checks, run, first, why, size, h, values,
                 seeds, idx, kpos, pending, free, qkey, qres, owner, handled,
                 order>>

\* lines 59-60: the next seed; the model follows the search up to MaxSeed
NewSeed ==
  /\ pc = "newseed"
  /\ seed < MaxSeed
  /\ seed' = seed + 1
  /\ kpos' = 1
  /\ pc' = "place"
  /\ UNCHANGED <<keys, overflow_checks, run, first, why, size, h, values,
                 seeds, idx, hidx, entries, pending, free, qkey, qres, owner,
                 handled, order>>

\* lines 61-75: one member of the bucket under the current seed
Place ==
  /\ pc = "place"
  /\ LET subkeys == h[hidx + 1]
         k       == subkeys[kpos]
         sum     == Add64(k.hash, ToU64(seed))
         i       == Mod64(xorshift_mult64(sum.val), size)
     IN  IF sum.overflow /\ overflow_checks
         THEN /\ pc' = "panic"
              /\ why' = "overflow"
              /\ UNCHANGED <<entries, kpos, pending>>
         ELSE IF Claimable(entries, values, i)
         THEN /\ entries' = Insert(entries, i, k.idx)
              /\ why' = why
              /\ IF kpos < Len(subkeys)
                 THEN /\ kpos' = kpos + 1
                      /\ pc' = "place"
                      /\ UNCHANGED pending
                 ELSE /\ pending' = DOMAIN entries'
                      /\ pc' = "commit"
                      /\ UNCHANGED kpos
         ELSE /\ entries' = NoEntries
              /\ pc' = "newseed"
              /\ why' = why
              /\ UNCHANGED <<kpos, pending>>
  /\ UNCHANGED <<keys, overflow_checks, run, first, size, h, values, seeds,
                 idx, hidx, seed, free, qkey, qres, owner, handled, order>>

\* lines 79-81: entries.iter() yields the claims in an unspecified order
Commit ==
  /\ pc = "commit"
  /\ \E k \in pending :
       LET pos == Cardinality(DOMAIN entries) - Cardinality(pending) + 1
       IN  /\ values' = CommitEntry(values, k, entries[k], pos, h[hidx + 1])
           /\ owner' = [owner EXCEPT ![k] = @ \cup {values'[k]}]
           /\ order' = Append(order, k)
           /\ pending' = pending \ {k}
           /\ pc' = IF pending' = {} THEN "assign" ELSE "commit"
  /\ UNCHANGED <<keys, overflow_checks, run, first, why, size, h, seeds, idx,
                 hidx, seed, entries, kpos, free, qkey, qres, handled>>

\* lines 84-88, and the step of the for loop
AssignSeeds ==
  /\ pc = "assign"
  /\ seeds' = AssignSeed(seeds, h[hidx + 1], seed, size)
  /\ handled' = [p \in DOMAIN handled |->
                   IF \E j \in 1..Len(h[hidx + 1]) :
                        Mod64(h[hidx + 1][j].hash, size) = p
                   THEN Append(handled[p], "seeded") ELSE handled[p]]
  /\ idx' = idx + 1
  /\ pc' = "for"
  /\ UNCHANGED <<keys, overflow_checks, run, first, why, size, h, values,
                 hidx, seed, entries, kpos, pending, free, qkey, qres, owner,
                 order>>

\* lines 91-99
CollectFree ==
  /\ pc = "free"
  /\ free' = FreeList(values)
  /\ values' = Finalize(values)
  /\ pc' = "while"
  /\ UNCHANGED <<keys, overflow_checks, run, first, why, size, h, seeds, idx,
                 hidx, seed, entries, kpos, pending, qkey, qres, owner,
                 handled, order>>

\* line 101
Remaining == hidx < Len(h) /\ h[hidx + 1] # << >>

\* lines 101-114: one singleton bucket
Displace ==
  /\ pc = "while"
  /\ Remaining
  /\ LET k == h[hidx + 1][1]
         i == Mod64(k.hash, size)
     IN  /\ hidx' = hidx + 1
         /\ IF free = << >>
            THEN \* line 107: unwrap of None
                 /\ pc' = "panic"
                 /\ why' = "unwrap"
                 /\ UNCHANGED <<free, values, seeds, owner, handled>>
            ELSE LET dst == free[Len(free)]
                 IN  /\ free' = SubSeq(free, 1, Len(free) - 1)
                     /\ values' = ClaimFree(values, dst, k)
                     /\ seeds' = [seeds EXCEPT ![i] = EncodeOffset(dst)]
                     /\ owner' = [owner EXCEPT ![dst] = @ \cup {k.idx}]
                     /\ handled' = [handled EXCEPT ![i] = Append(@, "displaced")]
                     /\ UNCHANGED <<pc, why>>
  /\ UNCHANGED <<keys, overflow_checks, run, first, size, h, idx, seed,
                 entries, kpos, pending, qkey, qres, order>>

\* line 116
Return ==
  /\ pc = "while"
  /\ ~Remaining
  /\ pc' = "done"
  /\ UNCHANGED <<keys, overflow_checks, run, first, why, size, h, values,
                 seeds, idx, hidx, seed, entries, kpos, pending, free, qkey,
                 qres, owner, handled, order>>

\* Table::query on the table just returned, for any string
DoQuery ==
  /\ pc = "done"
  /\ \E k \in AllKeys :
       /\ qkey' = k
       /\ qres' = Query(values, seeds, k, overflow_checks)
  /\ pc' = "queried"
  /\ UNCHANGED <<keys, overflow_checks, run, first, why, size, h, values,
                 seeds, idx, hidx, seed, entries, kpos, pending, free, owner,
                 handled, order>>

\* Table::new is called a second time on the same key sequence
Rebuild ==
  /\ pc = "done"
  /\ run = 1
  /\ run' = 2
  /\ first' = [values |-> values, seeds |-> seeds, order |-> order]
  /\ pc' = "start"
  /\ size' = 0
  /\ h' = << >>
  /\ values' = << >>
  /\ seeds' = << >>
  /\ idx' = 0
  /\ hidx' = 0
  /\ seed' = 0
  /\ entries' = NoEntries
  /\ kpos' = 0
  /\ pending' = {}
  /\ free' = << >>
  /\ qkey' = NoKey
  /\ qres' = Ok(0)
  /\ owner' = << >>
  /\ handled' = << >>
  /\ order' = << >>
  /\ UNCHANGED <<keys, overflow_checks, why>>

Next ==
  \/ Start
  \/ ForBucket
  \/ NewSeed
  \/ Place
  \/ Commit
  \/ AssignSeeds
  \/ CollectFree
  \/ Displace
  \/ Return
  \/ DoQuery
  \/ Rebuild

Spec == Init /\ [][Next]_vars


(***************************************************************************)
(* Properties.                                                             *)
(***************************************************************************)
N == Len(keys)

Returned == pc = "done"

Queried == pc = "queried"

\* the key positions whose primary slot is p
MembersOf(p) == {i \in 1..N : Mod64(calculate_hash(keys[i]), size) = p}

\* the slots of values that hold v
SlotsHolding(v) == {s \in DOMAIN values : values[s] = v}

\* two entries of the bucket carry the same 64-bit hash
SameHashPair(bucket) ==
  \E a, b \in 1..Len(bucket) : a # b /\ bucket[a].hash = bucket[b].hash

\* every seed the model follows has been rejected and the loop goes on
SearchExhausted == pc = "newseed" /\ seed = MaxSeed

TypeOK ==
  /\ pc \in {"start", "for", "newseed", "place", "commit", "assign", "free",
             "while", "done", "queried", "panic"}
  /\ run \in {1, 2}
  /\ seed \in 0..MaxSeed
  /\ pc \notin {"start", "panic"} =>
       /\ DOMAIN values = 0..(size - 1)
       /\ DOMAIN seeds = 0..(size - 1)
       /\ Len(h) = size

\* the model stops following a search only where no seed can ever be accepted:
\* equal hashes give equal slots under every seed
CapOnlyOnSameHash == SearchExhausted => SameHashPair(h[hidx + 1])

C2_RangeAnyLength ==
  (Queried /\ NoDuplicates(keys) /\ qres.ok) => qres.val < N

\* C2 amended: for a duplicate-free key sequence of length n >= 1, query of
\* any string, member or not, never returns a value >= n
C2_Range ==
  (Queried /\ NoDuplicates(keys) /\ N >= 1 /\ qres.ok) => qres.val < N

\* a string outside a three-key set is queried on the four-slot table
C2_Witness ==
  /\ Queried
  /\ NoDuplicates(keys)
  /\ N = 3
  /\ \A i \in 1..N : keys[i] # qkey
  /\ qres.ok
  /\ \E p \in DOMAIN handled : handled[p] = <<"displaced">>

\* C3: query completes and returns a value for every string, on every table
\* Table::new returned: no index leaves the arrays and no arithmetic step fails
C3_QueryTotal == Queried => qres.ok

\* C4 as stated: every target index in [0, n) appears in values exactly once,
\* at the slot query reaches for its key
C4_ExactlyOnce ==
  (Returned /\ NoDuplicates(keys) /\ N >= 1) =>
    \A i \in 1..N :
      /\ Cardinality(SlotsHolding(i - 1)) = 1
      /\ QuerySlot(values, seeds, keys[i], overflow_checks).val
           \in SlotsHolding(i - 1)

\* C4 amended: every target index in [0, n) is held by the slot query reaches
\* for its key; the indices 1..n-1 appear exactly once, and 0 appears
\* 1 + (size - n) times, once for its key and once in every unclaimed slot,
\* which keeps its zero fill
C4_Values ==
  (Returned /\ NoDuplicates(keys) /\ N >= 1) =>
    /\ \A i \in 1..N :
         LET s == QuerySlot(values, seeds, keys[i], overflow_checks)
         IN  s.ok /\ s.val \in SlotsHolding(i - 1)
    /\ \A i \in 2..N : Cardinality(SlotsHolding(i - 1)) = 1
    /\ Cardinality(SlotsHolding(0)) = 1 + (size - N)

\* three keys in four slots, one bucket seeded and one displaced
C4_Witness ==
  /\ Returned
  /\ NoDuplicates(keys)
  /\ N = 3
  /\ Cardinality(SlotsHolding(0)) = 2
  /\ \E p \in DOMAIN seeds : seeds[p] > 0
  /\ \E p \in DOMAIN seeds : seeds[p] < 0

C6_EmptyTableOfSizeZero ==
  (Returned /\ N = 0) => (size = 0 /\ values = << >> /\ seeds = << >>)

\* C6 amended: Table::new on an empty key sequence performs no division or
\* modulo by zero and returns a table of size 1 = next_power_of_two(0), both
\* arrays holding the single value 0
C6_EmptyTable ==
  N = 0 =>
    /\ pc # "panic"
    /\ Returned => (size = 1 /\ values = (0 :> 0) /\ seeds = (0 :> 0))

C6_Witness == Returned /\ N = 0 /\ run = 2

\* C7: the second run of Table::new on the same key sequence yields a table
\* whose query results agree with the first run's for every key, whatever order
\* entries.iter() yielded the tentative claims in
C7_Determinism ==
  (Queried /\ run = 2) =>
    qres = Query(first.values, first.seeds, qkey, overflow_checks)

\* the two runs committed the claims of a bucket in different orders
C7_Witness ==
  /\ Queried
  /\ run = 2
  /\ order # first.order
  /\ Len(order) >= 3

\* C8: the seed search of a bucket ends, by accepting a seed or by aborting at
\* a sanity cap, also when two members have the same hash (stated for the
\* seeds the model follows: the search is over once MaxSeed seeds are rejected)
C8_SeedSearchEnds == NoDuplicates(keys) => ~SearchExhausted

\* C9: free.pop().unwrap() never fails: in the displacement phase the free
\* list holds at least as many slots as singleton buckets remain, every slot
\* in it is unclaimed, and no slot of values is ever written for two keys
C9_FreeList ==
  NoDuplicates(keys) =>
    /\ why # "unwrap"
    /\ \A s \in DOMAIN owner : Cardinality(owner[s]) <= 1
    /\ pc = "while" =>
         /\ Len(free) >= Cardinality({j \in (hidx + 1)..Len(h) : h[j] # << >>})
         /\ \A j \in 1..Len(free) : owner[free[j]] = {}

\* the last singleton bucket took the last free slot, after a seeded bucket
C9_Witness ==
  /\ Returned
  /\ NoDuplicates(keys)
  /\ free = << >>
  /\ \E p \in DOMAIN handled : handled[p] = <<"seeded">>
  /\ Cardinality({p \in DOMAIN handled : handled[p] = <<"displaced">>}) >= 2

\* C10: in the returned table, for every primary slot p: the bucket of p had
\* >= 2 members iff seeds[p] >= 1, and that seed sends every member to the
\* slot holding its index; it had exactly 1 member iff seeds[p] = -(d + 1)
\* for the slot d holding its index; it was empty iff seeds[p] = 0; and no
\* bucket was handled by both phases
C10_SeedEncoding ==
  (Returned /\ NoDuplicates(keys)) =>
    \A p \in DOMAIN seeds :
      /\ Cardinality(MembersOf(p)) >= 2 <=> seeds[p] >= 1
      /\ Cardinality(MembersOf(p)) = 1 <=> seeds[p] < 0
      /\ Cardinality(MembersOf(p)) = 0 <=> seeds[p] = 0
      /\ seeds[p] >= 1 =>
           /\ handled[p] = <<"seeded">>
           /\ \A i \in MembersOf(p) :
                values[Mod64(xorshift_mult64(
                         Add64(calculate_hash(keys[i]), ToU64(seeds[p])).val),
                       size)] = i - 1
      /\ seeds[p] < 0 =>
           /\ handled[p] = <<"displaced">>
           /\ (-seeds[p] - 1) \in DOMAIN values
           /\ \A i \in MembersOf(p) : values[-seeds[p] - 1] = i - 1
      /\ seeds[p] = 0 => handled[p] = << >>

\* a table with a seeded bucket, a displaced bucket and an empty one
C10_Witness ==
  /\ Returned
  /\ NoDuplicates(keys)
  /\ \E p \in DOMAIN seeds : seeds[p] >= 2 /\ Cardinality(MembersOf(p)) = 2
  /\ \E p \in DOMAIN seeds : seeds[p] < 0
  /\ \E p \in DOMAIN seeds : seeds[p] = 0

====
